---- MODULE Spec2Model ----
(***************************************************************************)
(* Model of src/detecttouch.py: the touchscreen gesture detector and the   *)
(* process supervision threads of the kiosk daemon.                        *)
(*                                                                         *)
(* Every Python thread is a process of the model with a program counter    *)
(* named after the source line it is about to execute.  A step of the      *)
(* model is one access to state shared between threads (a global flag, a   *)
(* closure variable, the clock, a thread start), so that every             *)
(* interleaving the interpreter can produce is an interleaving here.       *)
(* The clock (time.time(), in whole seconds) may advance between any two   *)
(* steps: a thread can be preempted anywhere.                              *)
(***************************************************************************)
EXTENDS Integers, Sequences, FiniteSets, TLC

\* Program constants (detecttouch.py:14, detecttouch.py:15).
target_taps == 10
time_window == 10

\* Bounds of the model.  The clock stops at MaxTime (every elapsed time
\* beyond time_window is treated alike by the code); the supervision loops
\* make at most MaxLaunches launch attempts between them.
MaxTime == 11
MaxLaunches == 2

\* The three places that start monitor_and_restart_chromium in a thread:
\* timeout_handler, touch_detection_worker, monitor_process_and_launch_fallback.
Origins == {"timer", "touch", "monitor"}

VARIABLES
    touch_detection_active, \* global flag (line 13)
    tap_count,              \* local of touch_detection_worker (line 246)
    start_time,             \* local of touch_detection_worker (line 247)
    timeout_triggered,      \* local of touch_detection_worker (line 248)
    now,                    \* time.time(), in seconds
    pc,                     \* position of main, touch, timer and monitor threads
    ev,                     \* the event being handled and its measured elapsed
    network_process,        \* state of the Network Settings process
    chromium,               \* one monitor_and_restart_chromium thread per origin
    alive,                  \* the daemon process has not exited
    signalled,              \* signal_handler has run
    outcomes,               \* history: the gesture outcomes dispatched, in order
    writers,                \* history: the threads that have assigned each shared variable
    timer_msg               \* the tap count formatted into the timer's log message (line 256)

vars == <<touch_detection_active, tap_count, start_time, timeout_triggered,
          now, pc, ev, network_process, chromium, alive, signalled, outcomes,
          writers, timer_msg>>

\* The input events read_loop can yield: evdev (type, code, value) triples.
EventTypes == {"EV_KEY", "EV_ABS"}
EventCodes == {"BTN_TOUCH", "ABS_X"}
EventValues == {0, 1}
Events == [type : EventTypes, code : EventCodes, value : EventValues]

\* No event is being handled (the loop variable is not read before the
\* next event is assigned to it).
NoEvent == [type |-> "none", code |-> "none", value |-> 0, elapsed |-> 0]

\* The elapsed time of an outcome whose code path measures none.
Unmeasured == -1

\* No log message of the timer is being emitted.
NoMessage == -1

NoLoop == [pc |-> "none", launches |-> 0, last |-> "none"]

Init ==
    /\ touch_detection_active = TRUE
    /\ tap_count = 0
    /\ start_time = 0
    /\ timeout_triggered = FALSE
    /\ now = 0
    /\ pc = [main |-> "L360", touch |-> "open", timer |-> "none", monitor |-> "none"]
    /\ ev = NoEvent
    /\ network_process = "none"
    /\ chromium = [o \in Origins |-> NoLoop]
    /\ alive = TRUE
    /\ signalled = FALSE
    /\ outcomes = <<>>
    /\ writers = [touch_detection_active |-> {}, timeout_triggered |-> {}]
    /\ timer_msg = NoMessage

(***************************************************************************)
(* Helpers shared by the threads.                                          *)
(***************************************************************************)

\* threading.Thread(target=monitor_and_restart_chromium, daemon=False).start()
start_chromium_thread(o) ==
    chromium' = [chromium EXCEPT ![o] = [pc |-> "L148", launches |-> 0, last |-> "none"]]

\* A gesture outcome is dispatched (the log line and what follows it).
dispatch(kind, taps, elapsed) ==
    outcomes' = Append(outcomes, [kind |-> kind, taps |-> taps, elapsed |-> elapsed])

\* launch_application returns a process handle ("started") or None ("failed").
LaunchResults == {"started", "failed"}

goto(thread, label) == pc' = [pc EXCEPT ![thread] = label]

\* The thread assigns the shared variable (an assignment after the run was
\* initialised: lines 73, 255, 286, 309, 310).
assigned_by(variable, thread) ==
    writers' = [writers EXCEPT ![variable] = @ \cup {thread}]

(***************************************************************************)
(* touch_detection_worker (lines 229-331), the daemon thread started by    *)
(* main.                                                                   *)
(***************************************************************************)

\* A classifier that takes every BTN_TOUCH key event, press or release.
is_touch_key(e) == e.type = "EV_KEY" /\ e.code = "BTN_TOUCH"

\* line 277: the event is a touch-down edge
is_touch_down(e) == e.type = "EV_KEY" /\ e.code = "BTN_TOUCH" /\ e.value = 1

\* line 280: the tap is inside the window (inclusive)
within_window(elapsed) == elapsed <= time_window

\* A worker that reaches the target one tap late.
target_reached_late(count) == count > target_taps

\* line 284: the target count is reached
target_reached(count) == count >= target_taps

\* lines 236-268: open the device, initialise the run, start the timer thread.
\* A device that cannot be opened ends the worker (line 243).
worker_open ==
    /\ alive /\ pc.touch = "open"
    /\ \E opened \in BOOLEAN :
        IF opened
        THEN /\ tap_count' = 0
             /\ start_time' = now
             /\ timeout_triggered' = FALSE
             /\ pc' = [pc EXCEPT !.touch = "L273", !.timer = "L253"]
        ELSE /\ goto("touch", "done")
             /\ UNCHANGED <<tap_count, start_time, timeout_triggered>>
    /\ UNCHANGED <<touch_detection_active, now, ev, network_process, chromium,
                   alive, signalled, outcomes, writers, timer_msg>>

\* line 273: read_loop yields the next event
worker_read ==
    /\ alive /\ pc.touch = "L273"
    /\ \E e \in Events :
        ev' = [type |-> e.type, code |-> e.code, value |-> e.value, elapsed |-> 0]
    /\ goto("touch", "L274a")
    /\ UNCHANGED <<touch_detection_active, tap_count, start_time, timeout_triggered,
                   now, network_process, chromium, alive, signalled, outcomes, writers, timer_msg>>

\* line 273: read_loop raises (device error); control passes to line 323
worker_read_error ==
    /\ alive /\ pc.touch = "L273"
    /\ goto("touch", "L324")
    /\ UNCHANGED <<touch_detection_active, tap_count, start_time, timeout_triggered,
                   now, ev, network_process, chromium, alive, signalled, outcomes,
                   writers, timer_msg>>

\* line 274, first operand: not touch_detection_active
worker_L274a ==
    /\ alive /\ pc.touch = "L274a"
    /\ IF ~touch_detection_active
       THEN goto("touch", "done")
       ELSE goto("touch", "L274b")
    /\ UNCHANGED <<touch_detection_active, tap_count, start_time, timeout_triggered,
                   now, ev, network_process, chromium, alive, signalled, outcomes, writers, timer_msg>>

\* line 274, second operand: timeout_triggered
worker_L274b ==
    /\ alive /\ pc.touch = "L274b"
    /\ IF timeout_triggered
       THEN goto("touch", "done")
       ELSE goto("touch", "L277")
    /\ UNCHANGED <<touch_detection_active, tap_count, start_time, timeout_triggered,
                   now, ev, network_process, chromium, alive, signalled, outcomes, writers, timer_msg>>

\* lines 277-280: classify the event, measure elapsed, compare with the window
worker_L277 ==
    /\ alive /\ pc.touch = "L277"
    /\ IF is_touch_down(ev)
       THEN LET elapsed == now - start_time IN
            /\ ev' = [ev EXCEPT !.elapsed = elapsed]
            /\ IF within_window(elapsed)
               THEN goto("touch", "L281")
               ELSE goto("touch", "L308")
       ELSE /\ ev' = NoEvent
            /\ goto("touch", "L273")
    /\ UNCHANGED <<touch_detection_active, tap_count, start_time, timeout_triggered,
                   now, network_process, chromium, alive, signalled, outcomes, writers, timer_msg>>

\* lines 281-284: count the tap, test the target
worker_L281 ==
    /\ alive /\ pc.touch = "L281"
    /\ tap_count' = tap_count + 1
    /\ IF target_reached(tap_count')
       THEN /\ goto("touch", "L285")
            /\ ev' = ev
       ELSE /\ goto("touch", "L273")
            /\ ev' = NoEvent
    /\ UNCHANGED <<touch_detection_active, start_time, timeout_triggered,
                   now, network_process, chromium, alive, signalled, outcomes,
                   writers, timer_msg>>

\* line 285: the log line "SUCCESS!", the Confirmed outcome
worker_L285 ==
    /\ alive /\ pc.touch = "L285"
    /\ dispatch("Confirmed", tap_count, ev.elapsed)
    /\ goto("touch", "L286")
    /\ UNCHANGED <<touch_detection_active, tap_count, start_time, timeout_triggered,
                   now, ev, network_process, chromium, alive, signalled,
                   writers, timer_msg>>

\* line 286: the global flag is cleared
worker_L286 ==
    /\ alive /\ pc.touch = "L286"
    /\ touch_detection_active' = FALSE
    /\ assigned_by("touch_detection_active", "touch")
    /\ goto("touch", "L287")
    /\ UNCHANGED <<tap_count, start_time, timeout_triggered,
                   now, ev, network_process, chromium, alive, signalled, outcomes,
                   timer_msg>>

\* line 287: launch_application("Network Settings", ...) is entered
worker_L287 ==
    /\ alive /\ pc.touch = "L287"
    /\ network_process' = "launching"
    /\ goto("touch", "L289")
    /\ UNCHANGED <<touch_detection_active, tap_count, start_time, timeout_triggered,
                   now, ev, chromium, alive, signalled, outcomes, writers, timer_msg>>

\* lines 287-304: launch_application returns; a handle starts the monitor
\* thread (line 296), None starts chromium monitoring (line 304)
worker_L289 ==
    /\ alive /\ pc.touch = "L289"
    /\ \E r \in LaunchResults :
        IF r = "started"
        THEN /\ network_process' = "running"
             /\ pc' = [pc EXCEPT !.touch = "L306", !.monitor = "L175"]
             /\ UNCHANGED chromium
        ELSE /\ network_process' = "failed"
             /\ goto("touch", "L305")
             /\ start_chromium_thread("touch")
    /\ UNCHANGED <<touch_detection_active, tap_count, start_time, timeout_triggered,
                   now, ev, alive, signalled, outcomes, writers, timer_msg>>

\* line 308: a touch-down after the window, guard on timeout_triggered
worker_L308 ==
    /\ alive /\ pc.touch = "L308"
    /\ IF ~timeout_triggered
       THEN /\ goto("touch", "L309")
            /\ ev' = ev
       ELSE /\ goto("touch", "L273")
            /\ ev' = NoEvent
    /\ UNCHANGED <<touch_detection_active, tap_count, start_time, timeout_triggered,
                   now, network_process, chromium, alive, signalled, outcomes, writers, timer_msg>>

\* line 309: timeout_triggered = True
worker_L309 ==
    /\ alive /\ pc.touch = "L309"
    /\ timeout_triggered' = TRUE
    /\ assigned_by("timeout_triggered", "touch")
    /\ goto("touch", "L310")
    /\ UNCHANGED <<touch_detection_active, tap_count, start_time,
                   now, ev, network_process, chromium, alive, signalled, outcomes,
                   timer_msg>>

\* line 310: the global flag is cleared
worker_L310 ==
    /\ alive /\ pc.touch = "L310"
    /\ touch_detection_active' = FALSE
    /\ assigned_by("touch_detection_active", "touch")
    /\ goto("touch", "L311")
    /\ UNCHANGED <<tap_count, start_time, timeout_triggered,
                   now, ev, network_process, chromium, alive, signalled, outcomes,
                   timer_msg>>

\* line 311: the log line "Time window exceeded", the TimedOut outcome
worker_L311 ==
    /\ alive /\ pc.touch = "L311"
    /\ dispatch("TimedOut", tap_count, ev.elapsed)
    /\ goto("touch", "L313")
    /\ UNCHANGED <<touch_detection_active, tap_count, start_time, timeout_triggered,
                   now, ev, network_process, chromium, alive, signalled,
                   writers, timer_msg>>

\* lines 312-317: start chromium monitoring
worker_L313 ==
    /\ alive /\ pc.touch = "L313"
    /\ start_chromium_thread("touch")
    /\ goto("touch", "L318")
    /\ UNCHANGED <<touch_detection_active, tap_count, start_time, timeout_triggered,
                   now, ev, network_process, alive, signalled, outcomes,
                   writers, timer_msg>>

\* lines 323-324: except Exception: logger.error, the SourceFailed outcome
\* (the handler reads no clock)
worker_L324 ==
    /\ alive /\ pc.touch = "L324"
    /\ dispatch("SourceFailed", tap_count, Unmeasured)
    /\ goto("touch", "L326")
    /\ UNCHANGED <<touch_detection_active, tap_count, start_time, timeout_triggered,
                   now, ev, network_process, chromium, alive, signalled,
                   writers, timer_msg>>

\* lines 325-330: start chromium monitoring
worker_L326 ==
    /\ alive /\ pc.touch = "L326"
    /\ start_chromium_thread("touch")
    /\ goto("touch", "L331")
    /\ UNCHANGED <<touch_detection_active, tap_count, start_time, timeout_triggered,
                   now, ev, network_process, alive, signalled, outcomes,
                   writers, timer_msg>>

\* lines 305-306, 318-319, 331: the last log line, break, and the worker
\* thread ends (what is_alive() of line 362 reads)
worker_return ==
    /\ alive /\ pc.touch \in {"L305", "L306", "L318", "L331"}
    /\ goto("touch", "done")
    /\ UNCHANGED <<touch_detection_active, tap_count, start_time, timeout_triggered,
                   now, ev, network_process, chromium, alive, signalled, outcomes,
                   writers, timer_msg>>

touch_detection_worker ==
    \/ worker_open \/ worker_read \/ worker_read_error
    \/ worker_L274a \/ worker_L274b \/ worker_L277 \/ worker_L281
    \/ worker_L285 \/ worker_L286 \/ worker_L287 \/ worker_L289
    \/ worker_L308 \/ worker_L309 \/ worker_L310 \/ worker_L311 \/ worker_L313
    \/ worker_L324 \/ worker_L326 \/ worker_return

(***************************************************************************)
(* timeout_handler (lines 250-264), the daemon timer thread.               *)
(***************************************************************************)

\* A timer that wakes one second early.
timer_expired_early == now - start_time >= time_window - 1

\* line 253: time.sleep(time_window) has returned; the sleep starts after
\* start_time is taken and lasts at least time_window
timer_expired == now - start_time >= time_window

\* line 254: tap_count < target_taps and not timeout_triggered
below_target(count) == count < target_taps

timeout_L253 ==
    /\ alive /\ pc.timer = "L253"
    /\ timer_expired
    /\ goto("timer", "L254a")
    /\ UNCHANGED <<touch_detection_active, tap_count, start_time, timeout_triggered,
                   now, ev, network_process, chromium, alive, signalled, outcomes, writers, timer_msg>>

\* line 254, first operand: tap_count < target_taps
timeout_L254a ==
    /\ alive /\ pc.timer = "L254a"
    /\ IF below_target(tap_count)
       THEN goto("timer", "L254b")
       ELSE goto("timer", "done")
    /\ UNCHANGED <<touch_detection_active, tap_count, start_time, timeout_triggered,
                   now, ev, network_process, chromium, alive, signalled, outcomes, writers, timer_msg>>

\* line 254, second operand: not timeout_triggered
timeout_L254b ==
    /\ alive /\ pc.timer = "L254b"
    /\ IF ~timeout_triggered
       THEN goto("timer", "L255")
       ELSE goto("timer", "done")
    /\ UNCHANGED <<touch_detection_active, tap_count, start_time, timeout_triggered,
                   now, ev, network_process, chromium, alive, signalled, outcomes, writers, timer_msg>>

\* line 255: timeout_triggered = True
timeout_L255 ==
    /\ alive /\ pc.timer = "L255"
    /\ timeout_triggered' = TRUE
    /\ assigned_by("timeout_triggered", "timer")
    /\ goto("timer", "L256")
    /\ UNCHANGED <<touch_detection_active, tap_count, start_time,
                   now, ev, network_process, chromium, alive, signalled, outcomes,
                   timer_msg>>

\* line 256: the argument of logger.info is evaluated: the message
\* "Timeout reached. Only {tap_count} taps detected." is formatted
timeout_L256 ==
    /\ alive /\ pc.timer = "L256"
    /\ timer_msg' = tap_count
    /\ goto("timer", "L256log")
    /\ UNCHANGED <<touch_detection_active, tap_count, start_time, timeout_triggered,
                   now, ev, network_process, chromium, alive, signalled, outcomes,
                   writers>>

\* line 256: logger.info emits the formatted message, the TimedOut outcome
timeout_L256log ==
    /\ alive /\ pc.timer = "L256log"
    /\ dispatch("TimedOut", timer_msg, now - start_time)
    /\ timer_msg' = NoMessage
    /\ goto("timer", "L259")
    /\ UNCHANGED <<touch_detection_active, tap_count, start_time, timeout_triggered,
                   now, ev, network_process, chromium, alive, signalled, writers>>

\* lines 259-264: start chromium monitoring
timeout_L259 ==
    /\ alive /\ pc.timer = "L259"
    /\ start_chromium_thread("timer")
    /\ goto("timer", "done")
    /\ UNCHANGED <<touch_detection_active, tap_count, start_time, timeout_triggered,
                   now, ev, network_process, alive, signalled, outcomes, writers, timer_msg>>

timeout_handler ==
    \/ timeout_L253 \/ timeout_L254a \/ timeout_L254b
    \/ timeout_L255 \/ timeout_L256 \/ timeout_L256log \/ timeout_L259

(***************************************************************************)
(* monitor_and_restart_chromium (lines 143-167), one non-daemon thread per *)
(* place that starts it.                                                   *)
(***************************************************************************)

\* A loop that does not consult the flag.
loop_continues_always == TRUE

\* line 148: the loop condition
loop_continues == touch_detection_active

\* The launch attempts made so far by all loops.
launches_made ==
    chromium["timer"].launches + chromium["touch"].launches
        + chromium["monitor"].launches

\* line 148: while touch_detection_active
chromium_L148(o) ==
    /\ alive /\ chromium[o].pc = "L148"
    /\ IF loop_continues
       THEN /\ launches_made < MaxLaunches
            /\ chromium' = [chromium EXCEPT ![o].pc = "L150"]
       ELSE chromium' = [chromium EXCEPT ![o].pc = "stopped"]
    /\ UNCHANGED <<touch_detection_active, tap_count, start_time, timeout_triggered,
                   now, pc, ev, network_process, alive, signalled, outcomes, writers, timer_msg>>

\* lines 150-151: launch_application("Chromium Kiosk", ...) is entered
chromium_L150(o) ==
    /\ alive /\ chromium[o].pc = "L150"
    /\ chromium' = [chromium EXCEPT ![o].pc = "L151", ![o].launches = @ + 1]
    /\ UNCHANGED <<touch_detection_active, tap_count, start_time, timeout_triggered,
                   now, pc, ev, network_process, alive, signalled, outcomes, writers, timer_msg>>

\* A supervisor that waits whatever launch_application returned.
after_launch_always_wait(r) == "L156"

\* line 153: where the loop goes with the result of launch_application
after_launch(r) == IF r = "started" THEN "L156" ELSE "L161"

\* lines 151-153: launch_application returns a handle or None
chromium_L151(o) ==
    /\ alive /\ chromium[o].pc = "L151"
    /\ \E r \in LaunchResults :
        chromium' = [chromium EXCEPT ![o].pc = after_launch(r), ![o].last = r]
    /\ UNCHANGED <<touch_detection_active, tap_count, start_time, timeout_triggered,
                   now, pc, ev, network_process, alive, signalled, outcomes, writers, timer_msg>>

\* line 156: chromium_process.wait() returns (chromium closed).  The
\* handler of lines 163-165 guards calls that do not raise:
\* launch_application catches its own errors (line 139) and wait() without
\* a timeout returns the exit status.
chromium_L156(o) ==
    /\ alive /\ chromium[o].pc = "L156"
    /\ chromium' = [chromium EXCEPT ![o].pc = "L158"]
    /\ UNCHANGED <<touch_detection_active, tap_count, start_time, timeout_triggered,
                   now, pc, ev, network_process, alive, signalled, outcomes, writers, timer_msg>>

\* lines 158, 161: time.sleep(3) after an exit, time.sleep(10) after a failed
\* launch, returns; back to the loop condition
chromium_sleep(o) ==
    /\ alive /\ chromium[o].pc \in {"L158", "L161"}
    /\ chromium' = [chromium EXCEPT ![o].pc = "L148"]
    /\ UNCHANGED <<touch_detection_active, tap_count, start_time, timeout_triggered,
                   now, pc, ev, network_process, alive, signalled, outcomes, writers, timer_msg>>

monitor_and_restart_chromium(o) ==
    \/ chromium_L148(o) \/ chromium_L150(o) \/ chromium_L151(o)
    \/ chromium_L156(o) \/ chromium_sleep(o)

(***************************************************************************)
(* monitor_process_and_launch_fallback (lines 169-206), the daemon thread  *)
(* watching the Network Settings process.                                  *)
(***************************************************************************)

\* The Network Settings process ends (the operator closes it).
network_process_exits ==
    /\ network_process = "running"
    /\ network_process' = "exited"
    /\ UNCHANGED <<touch_detection_active, tap_count, start_time, timeout_triggered,
                   now, pc, ev, chromium, alive, signalled, outcomes, writers, timer_msg>>

\* line 175: process.wait() returns.  It does not raise, so the handler of
\* lines 194-206 (which starts the same chromium monitoring) is not entered.
monitor_L175 ==
    /\ alive /\ pc.monitor = "L175"
    /\ network_process = "exited"
    /\ goto("monitor", "L179")
    /\ UNCHANGED <<touch_detection_active, tap_count, start_time, timeout_triggered,
                   now, ev, network_process, chromium, alive, signalled, outcomes, writers, timer_msg>>

\* lines 179-190: time.sleep(2), then start chromium monitoring
monitor_L179 ==
    /\ alive /\ pc.monitor = "L179"
    /\ start_chromium_thread("monitor")
    /\ goto("monitor", "done")
    /\ UNCHANGED <<touch_detection_active, tap_count, start_time, timeout_triggered,
                   now, ev, network_process, alive, signalled, outcomes, writers, timer_msg>>

monitor_process_and_launch_fallback ==
    \/ monitor_L175 \/ monitor_L179

(***************************************************************************)
(* main (lines 333-373), signal_handler (lines 69-81) and the end of the   *)
(* process.                                                                *)
(***************************************************************************)

\* line 360: while touch_detection_active
main_L360 ==
    /\ alive /\ pc.main = "L360"
    /\ IF touch_detection_active
       THEN goto("main", "L361")
       ELSE goto("main", "returned")
    /\ UNCHANGED <<touch_detection_active, tap_count, start_time, timeout_triggered,
                   now, ev, network_process, chromium, alive, signalled, outcomes, writers, timer_msg>>

\* lines 361-364: time.sleep(5), then leave the loop if the touch thread
\* has ended
main_L361 ==
    /\ alive /\ pc.main = "L361"
    /\ IF pc.touch = "done"
       THEN goto("main", "returned")
       ELSE goto("main", "L360")
    /\ UNCHANGED <<touch_detection_active, tap_count, start_time, timeout_triggered,
                   now, ev, network_process, chromium, alive, signalled, outcomes, writers, timer_msg>>

main == main_L360 \/ main_L361

\* lines 69-73: SIGTERM or SIGINT (any number of times) enters the handler
\* on the main thread, whatever the main thread is doing, and the flag is
\* cleared.  The handler interrupts main in its loop ("L81"), or, once main
\* has ended, the interpreter's wait for the non-daemon threads or its exit
\* ("L81s").
signal_L73 ==
    /\ alive
    /\ touch_detection_active' = FALSE
    /\ assigned_by("touch_detection_active", "main")
    /\ signalled' = TRUE
    /\ IF pc.main \in {"returned", "exited", "finalizing", "L81s"}
       THEN goto("main", "L81s")
       ELSE goto("main", "L81")
    /\ UNCHANGED <<tap_count, start_time, timeout_triggered,
                   now, ev, network_process, chromium, alive, outcomes, timer_msg>>

\* lines 76-81: os.remove, sys.exit(0).  In main's loop SystemExit unwinds
\* through the finally block of lines 370-373 and ends the main thread; the
\* interpreter goes on to wait for the non-daemon threads.  Raised inside
\* that wait, or in the exit that follows it, it leaves the process to exit
\* at once, whatever threads are left.
signal_L81 ==
    /\ alive /\ pc.main \in {"L81", "L81s"}
    /\ IF pc.main = "L81s"
       THEN /\ alive' = FALSE
            /\ pc' = pc
       ELSE /\ alive' = alive
            /\ goto("main", "exited")
    /\ UNCHANGED <<touch_detection_active, tap_count, start_time, timeout_triggered,
                   now, ev, network_process, chromium, signalled, outcomes,
                   writers, timer_msg>>

signal_handler == signal_L73 \/ signal_L81

\* The main thread has ended and the interpreter's wait for the non-daemon
\* threads (daemon=False, lines 185-188 and the like) finds none left: the
\* wait is over and the interpreter begins its exit.  The threads of the
\* process run on until the process is gone.
interpreter_shutdown ==
    /\ alive /\ pc.main \in {"returned", "exited"}
    /\ \A o \in Origins : chromium[o].pc \in {"none", "stopped"}
    /\ goto("main", "finalizing")
    /\ UNCHANGED <<touch_detection_active, tap_count, start_time, timeout_triggered,
                   now, ev, network_process, chromium, alive, signalled, outcomes,
                   writers, timer_msg>>

\* The interpreter, past its wait, ends the process; every thread ends with
\* it: the daemon threads (lines 267, 291-295, 353) and any thread started
\* since the wait was over, daemon=False or not.
process_exit ==
    /\ alive /\ pc.main = "finalizing"
    /\ alive' = FALSE
    /\ UNCHANGED <<touch_detection_active, tap_count, start_time, timeout_triggered,
                   now, pc, ev, network_process, chromium, signalled, outcomes, writers, timer_msg>>

\* Some thread of the run still reads the clock (lines 253, 278).
clock_observed ==
    \/ pc.touch \notin {"open", "done"}
    \/ pc.timer \in {"L253", "L254a", "L254b", "L255", "L256", "L256log"}

\* A second passes.
Tick ==
    /\ alive /\ clock_observed
    /\ now < MaxTime
    /\ now' = now + 1
    /\ UNCHANGED <<touch_detection_active, tap_count, start_time, timeout_triggered,
                   pc, ev, network_process, chromium, alive, signalled, outcomes, writers, timer_msg>>

Next ==
    \/ touch_detection_worker
    \/ timeout_handler
    \/ \E o \in Origins : monitor_and_restart_chromium(o)
    \/ monitor_process_and_launch_fallback
    \/ network_process_exits
    \/ main
    \/ signal_handler
    \/ interpreter_shutdown
    \/ process_exit
    \/ Tick

Spec == Init /\ [][Next]_vars

(***************************************************************************)
(* Properties.                                                             *)
(***************************************************************************)

Kinds(seq) == {seq[i].kind : i \in DOMAIN seq}

\* The supervision loops that have been started, and those still running.
StartedLoops == {o \in Origins : chromium[o].pc # "none"}
RunningLoops == {o \in Origins : chromium[o].pc \notin {"none", "stopped"}}

\* C1: at most one gesture outcome is dispatched per detection run: the
\* outcome history never holds two outcomes, and of the things an outcome
\* starts (the Network Settings launch, the chromium monitoring of the
\* timer, the chromium monitoring of the touch thread) at most one is ever
\* started.
C1_AtMostOneOutcome ==
    /\ Len(outcomes) <= 1
    /\ Cardinality((StartedLoops \ {"monitor"})
                   \cup (IF network_process # "none" THEN {"network"} ELSE {})) <= 1

\* C2: the Network Settings tool is launched only on a Confirmed outcome:
\* a tap is counted only for a touch-down event measured inside the window,
\* and at the step that enters the launch tap_count equals target_taps and
\* no TimedOut or SourceFailed outcome has been dispatched before.
C2_LaunchOnlyOnConfirmed ==
    [][ /\ (tap_count' # tap_count) =>
              /\ ev.type = "EV_KEY" /\ ev.code = "BTN_TOUCH" /\ ev.value = 1
              /\ ev.elapsed <= time_window
        /\ (network_process = "none" /\ network_process' # "none") =>
              /\ tap_count = target_taps
              /\ Kinds(outcomes) = {"Confirmed"} ]_vars

\* C3: when the target_taps-th touch-down event arrives with
\* elapsed <= time_window (inclusive), the outcome of the run is Confirmed
\* with tap count target_taps and no later event is processed.  The event
\* that would bring the count to target_taps and is tested at line 274 while
\* the window is still open is handled, not dropped; measured inside the
\* window it is counted and ends the counting; and from the SUCCESS log line
\* on the worker reads no further event and the outcomes of the run are the
\* one Confirmed outcome with tap count target_taps and the measured elapsed
\* time, and nothing else.
C3_ConfirmedInWindow ==
    /\ [][ (/\ pc.touch = "L274b" /\ pc'.touch # "L274b"
            /\ ev.type = "EV_KEY" /\ ev.code = "BTN_TOUCH" /\ ev.value = 1
            /\ tap_count = target_taps - 1
            /\ now - start_time <= time_window)
           => pc'.touch = "L277" ]_vars
    /\ [][ (/\ pc.touch = "L277" /\ pc'.touch # "L277"
            /\ ev.type = "EV_KEY" /\ ev.code = "BTN_TOUCH" /\ ev.value = 1
            /\ now - start_time <= time_window)
           => (pc'.touch = "L281" /\ ev'.elapsed = now - start_time) ]_vars
    /\ [][ (pc.touch = "L281" /\ pc'.touch # "L281") =>
              /\ tap_count' = tap_count + 1
              /\ (tap_count' = target_taps) <=> (pc'.touch = "L285") ]_vars
    /\ [](tap_count <= target_taps)
    /\ []((tap_count = target_taps) =>
              /\ pc.touch \in {"L285", "L286", "L287", "L289", "L305", "L306", "done"}
              /\ ev.elapsed <= time_window
              /\ pc.touch # "L285" =>
                    outcomes = << [kind |-> "Confirmed", taps |-> target_taps,
                                   elapsed |-> ev.elapsed] >>)

\* C4: when fewer than target_taps touch-downs have been counted, no
\* Confirmed outcome exists, every TimedOut outcome reports a tap count below
\* target_taps, and once the deadline timer has run to its end a TimedOut
\* outcome has been dispatched (also when no event arrived at all) or the
\* worker, having set the guard first for a late touch-down, stands at its
\* own TimedOut log line (lines 310-311); a TimedOut outcome is never
\* dispatched before time_window has elapsed since start_time.
C4_TimedOutAfterWindow ==
    /\ \A i \in DOMAIN outcomes :
          outcomes[i].kind = "TimedOut" => outcomes[i].elapsed >= time_window
    /\ tap_count < target_taps =>
          /\ "Confirmed" \notin Kinds(outcomes)
          /\ \A i \in DOMAIN outcomes :
                outcomes[i].kind = "TimedOut" => outcomes[i].taps < target_taps
          /\ pc.timer = "done" =>
                \/ "TimedOut" \in Kinds(outcomes)
                \/ pc.touch \in {"L310", "L311"}

\* C4 witness: five taps were counted, then nothing; the timer dispatched
\* TimedOut with five taps exactly when the window closed.
C4_Witness ==
    /\ pc.timer = "done"
    /\ tap_count = 5
    /\ outcomes = <<[kind |-> "TimedOut", taps |-> 5, elapsed |-> time_window]>>

\* C5: while no shutdown signal has been received the kiosk browser never
\* permanently stops: once chromium monitoring has been started (by the
\* timer, a late event, a source error, the Network Settings exit or its
\* launch failure), some monitoring loop is still running.
C5_PerpetualRestart ==
    (~signalled /\ StartedLoops # {}) => RunningLoops # {}

\* C6: after a Confirmed outcome and a successful launch of Network
\* Settings, once that process has terminated and the daemon has come to
\* rest (its monitor thread and the loop it started have ended, or the
\* daemon process has exited) without a shutdown signal, the kiosk browser
\* has been launched.
C6_FallbackAfterPrimaryExit ==
    (/\ network_process = "exited"
     /\ ~signalled
     /\ \/ ~alive
        \/ pc.monitor = "done" /\ chromium["monitor"].pc = "stopped")
    => \E o \in Origins : chromium[o].launches > 0

\* C7: when Network Settings fails to launch after a Confirmed outcome, the
\* chromium monitoring started in its place launches the kiosk browser: it
\* never ends, without a shutdown signal, with no launch made.
C7_FallbackAfterLaunchFailure ==
    (/\ network_process = "failed"
     /\ ~signalled
     /\ chromium["touch"].pc = "stopped")
    => chromium["touch"].launches > 0

\* C8: while no shutdown signal has been received, a failed kiosk-browser
\* launch never ends supervision: no monitoring loop has stopped with its
\* last launch attempt failed.
C8_RetryAfterLaunchFailure ==
    ~signalled =>
        \A o \in Origins : ~(chromium[o].pc = "stopped" /\ chromium[o].last = "failed")

\* C9: at most one process is the launched-and-monitored foreground target:
\* at most one chromium monitoring loop is running, and the kiosk browser is
\* not being launched or running while Network Settings is being launched
\* or running.
C9_SingleForegroundTarget ==
    /\ Cardinality(RunningLoops) <= 1
    /\ ~(/\ network_process \in {"launching", "running"}
         /\ \E o \in Origins : chromium[o].pc \in {"L151", "L156"})

\* C10: when a read error of the event source produces the first outcome
\* (SourceFailed), the deadline timer is stopped: no second outcome is ever
\* dispatched and the timer starts no chromium monitoring.
C10_SourceFailedStopsTimer ==
    (Len(outcomes) >= 1 /\ outcomes[1].kind = "SourceFailed") =>
        /\ Len(outcomes) = 1
        /\ pc.timer \notin {"L255", "L256", "L256log", "L259"}
        /\ chromium["timer"].pc = "none"

\* The touch device could not be opened: the worker ended at line 243
\* before the run was initialised and the timer thread started.
open_failed == pc.touch = "done" /\ pc.timer = "none"

\* C11: when the touch device cannot be opened at startup, the service goes
\* on to launch the kiosk browser: the daemon never exits, without a
\* shutdown signal, with no application launched.
C11_OpenFailureFallsBack ==
    (open_failed /\ ~signalled /\ ~alive) =>
        \E o \in Origins : chromium[o].launches > 0

\* C12: the tie at the boundary goes to the event: when the touch-down that
\* brings the count to target_taps is measured at elapsed = time_window, the
\* instant the timer expires, the outcome is Confirmed and no TimedOut
\* outcome is dispatched, whatever the interleaving of timer and worker.
C12_TieGoesToEvent ==
    (tap_count = target_taps /\ ev.elapsed = time_window) =>
        /\ "TimedOut" \notin Kinds(outcomes)
        /\ pc.touch # "L285" => "Confirmed" \in Kinds(outcomes)

\* The step enters a launch of the Network Settings tool (line 287).
network_launch_begins ==
    network_process' = "launching" /\ network_process # "launching"

\* C13: fallback monotonicity: once the kiosk browser has been selected
\* (chromium monitoring was started after a timeout, a source error, or the
\* exit or launch failure of Network Settings), no launch of Network Settings
\* begins any more; and Network Settings is launched at most once per run: a
\* launch begins only when none was begun before.
C13_FallbackMonotone ==
    [][ network_launch_begins =>
            /\ StartedLoops = {}
            /\ network_process = "none" ]_vars

\* C14: a wait, and the natural exit it reports, happen only for a launch
\* that succeeded: a chromium loop is in wait() (line 156) or past it (line
\* 158) only when its launch attempt returned a handle, after a failed
\* attempt it is in the retry sleep (line 161); the monitor thread that
\* waits on Network Settings exists only when that launch returned a handle.
C14_WaitOnlyAfterSuccess ==
    /\ \A o \in Origins :
          /\ chromium[o].pc \in {"L156", "L158"} => chromium[o].last = "started"
          /\ chromium[o].last = "failed" =>
                chromium[o].pc \in {"L161", "L148", "L150", "L151", "stopped"}
    /\ pc.monitor # "none" => network_process \in {"running", "exited"}
    /\ network_process = "exited" => pc.monitor # "none"

\* C14 witness: the second launch of a chromium loop succeeded and its
\* natural exit has been reported.
C14_Witness ==
    \E o \in Origins :
        /\ chromium[o].pc = "L158"
        /\ chromium[o].launches = 2
        /\ chromium[o].last = "started"

\* The step enters a launch of the kiosk browser (line 151) in some loop.
chromium_launch_begins ==
    \E o \in Origins : chromium'[o].pc = "L151" /\ chromium[o].pc # "L151"

\* C15 as stated: once signal_handler has cleared the flag, no launch of the
\* kiosk browser or of Network Settings begins.
C15_NoLaunchBeginsAfterSignal ==
    [][ signalled => ~chromium_launch_begins /\ ~network_launch_begins ]_vars

\* C15: once signal_handler has cleared the flag no new launch is scheduled:
\* no chromium loop passes its loop condition (line 148) into a new
\* iteration, no event passes the flag test of line 274 into the handling
\* that can end in the Network Settings launch, and a loop that stops makes
\* no further launch.  Iterations and event handlings that passed their
\* test before the signal, launches and waits in flight, go on.
C15_NoLaunchScheduledAfterSignal ==
    [][ signalled =>
          /\ \A o \in Origins :
                /\ chromium'[o].pc = "L150" => chromium[o].pc = "L150"
                /\ chromium[o].pc = "stopped" => chromium'[o] = chromium[o]
          /\ pc'.touch = "L274b" => pc.touch = "L274b" ]_vars

\* C15 witness: only signal_handler has cleared the flag, and a chromium
\* loop whose second launch succeeded came back to its loop condition
\* after the wait and stopped.
C15_Witness ==
    /\ signalled
    /\ writers.touch_detection_active = {"main"}
    /\ \E o \in Origins :
          /\ chromium[o].pc = "stopped"
          /\ chromium[o].launches = 2
          /\ chromium[o].last = "started"

\* C16: a detection run ends with exactly one outcome: without a shutdown
\* signal, once the run that was started has ended (the worker has left
\* read_loop for good and the timer thread has finished), one outcome and
\* only one has been dispatched.
C16_RunEndsWithOneOutcome ==
    (pc.touch = "done" /\ pc.timer = "done" /\ ~signalled) => Len(outcomes) = 1

\* C17: within a detection run tap_count starts at 0 (the run is
\* initialised with it), never decreases, changes only in steps of +1, and
\* never exceeds target_taps.
C17_TapCountMonotone ==
    /\ [](tap_count \in 0..target_taps)
    /\ [](pc.touch = "open" => tap_count = 0)
    /\ [][ pc.touch = "open" => tap_count' = 0 ]_vars
    /\ [][ tap_count' = tap_count \/ tap_count' = tap_count + 1 ]_vars

\* C17 witness: the count has gone all the way from 0 to target_taps and
\* the worker has ended.
C17_Witness ==
    /\ tap_count = target_taps
    /\ pc.touch = "done"
    /\ network_process = "running"

\* C18: no launched process is left unwatched: while no shutdown signal has
\* been received, a running Network Settings process has its monitor thread
\* alive and blocked in process.wait() (line 175), and a running kiosk
\* browser has its loop blocked in chromium_process.wait() (line 156) in a
\* live daemon.
C18_NoUnwatchedProcess ==
    ~signalled =>
        /\ network_process = "running" => (alive /\ pc.monitor = "L175")
        /\ \A o \in Origins : chromium[o].pc = "L156" => alive

\* C19: each shared variable has a single writer: after the run was
\* initialised, touch_detection_active is assigned by at most one thread and
\* timeout_triggered is assigned by at most one thread.
C19_SingleWriter ==
    /\ Cardinality(writers.touch_detection_active) <= 1
    /\ Cardinality(writers.timeout_triggered) <= 1

\* The worker thread takes the step.
worker_steps == pc'.touch # pc.touch

\* Nothing of the gesture state, the outcome or the launched targets
\* changes in the step.
gesture_unchanged ==
    UNCHANGED <<tap_count, timeout_triggered, touch_detection_active,
                outcomes, network_process, chromium>>

\* C20: an event that does not qualify leaves the gesture state unchanged.
\* While the worker handles an event that is not a touch-down (other type,
\* other code, or value other than 1), none of its steps changes tap_count,
\* dispatches an outcome or starts a launch, and past the classification of
\* line 277 it goes back to read_loop; tap_count is incremented only for a
\* touch-down, and never for one measured with elapsed > time_window, which
\* takes the late branch of line 307 instead.
C20_UnqualifiedEventIgnored ==
    /\ [][ (/\ worker_steps
            /\ pc.touch \in {"L274a", "L274b", "L277"}
            /\ ~(ev.type = "EV_KEY" /\ ev.code = "BTN_TOUCH" /\ ev.value = 1))
           => /\ gesture_unchanged
              /\ pc'.touch \in {"L274b", "L277", "L273", "done"}
              /\ pc.touch = "L277" => pc'.touch = "L273" ]_vars
    /\ [][ tap_count' # tap_count =>
              /\ ev.type = "EV_KEY" /\ ev.code = "BTN_TOUCH" /\ ev.value = 1
              /\ pc.touch = "L281" ]_vars
    /\ [][ (/\ worker_steps /\ pc.touch = "L277"
            /\ now - start_time > time_window)
           => /\ pc'.touch \in {"L273", "L308"}
              /\ tap_count' = tap_count ]_vars
    /\ [](pc.touch = "L281" => ev.elapsed <= time_window)
    /\ [](pc.touch \in {"L308", "L309", "L310", "L311", "L313", "L318"} =>
             ev.elapsed > time_window)

\* C20 witness: after three counted taps the worker is classifying a
\* touch-up event (BTN_TOUCH with value 0) that passed the tests of line 274.
C20_Witness ==
    /\ pc.touch = "L277"
    /\ ev.type = "EV_KEY" /\ ev.code = "BTN_TOUCH" /\ ev.value = 0
    /\ tap_count = 3
    /\ outcomes = <<>>

\* The first outcome of the run was produced by the deadline timer: it is
\* TimedOut and only the timer thread has assigned timeout_triggered.
timer_produced_outcome ==
    /\ Len(outcomes) >= 1
    /\ outcomes[1].kind = "TimedOut"
    /\ writers.timeout_triggered = {"timer"}

\* C21: when the outcome is produced by the deadline timer, the flag
\* touch_detection_active stays true and the chromium monitoring loop the
\* timer starts never stops, as long as no shutdown signal has been
\* received, also after the touch thread and main have ended.
C21_TimerOutcomeKeepsFlag ==
    (timer_produced_outcome /\ ~signalled) =>
        /\ touch_detection_active
        /\ chromium["timer"].pc # "stopped"

====
